---- MODULE Spec2Model ----
(***************************************************************************)
(* Model of src/src/server.py: the ArgoCD MCP gateway.                     *)
(*                                                                         *)
(*   - POST /jsonrpc  (jsonrpc_handler): read the body, hand it to         *)
(*     mcp.handle_jsonrpc, wrap what comes back in a JSONResponse.         *)
(*   - the tools registered with @mcp.tool(); three of them call the       *)
(*     ArgoCDClient, which issues a blocking requests.get.                 *)
(*   - GET /sse (event_generator): an endless loop that reads tools.json   *)
(*     and yields one "data: <json>\n\n" record per tick.                  *)
(*                                                                         *)
(* All coroutines run on one asyncio event loop.  `running` is the task    *)
(* that holds the loop's thread; a task gives the thread up only at an     *)
(* await that suspends or at a yield.                                      *)
(***************************************************************************)
EXTENDS Integers, Sequences, FiniteSets, TLC

\* ---------------------------------------------------------------- bounds
NumReqs == 2
MaxEvents == 3

Reqs == 1..NumReqs
Subs == {"sub1"}

NoTask == [kind |-> "none", rpc |-> 0, sse |-> ""]
RpcTask(r) == [kind |-> "rpc", rpc |-> r, sse |-> ""]
SseTask(s) == [kind |-> "sse", rpc |-> 0, sse |-> s]

\* ------------------------------------------------- configuration (l.24-28)
ARGOCD_BASE_URL == [origin |-> "https://argocd.example", trailingSlashes |-> 1]
ARGOCD_API_TOKEN == "secret-token"

\* str.rstrip("/") of line 41
RStrip(url) == [url EXCEPT !.trailingSlashes = 0]

\* ---------------------------------------------------------- ArgoCDClient
ClientHeaders ==
  [Authorization |-> <<"Bearer", ARGOCD_API_TOKEN>>,
   ContentType |-> "application/json"]

argocd_client == [base_url |-> RStrip(ARGOCD_BASE_URL), headers |-> ClientHeaders]

None == "None"

\* Python truthiness of an Optional[str]: None and "" are falsy (line 48)
Truthy(v) == v \notin {None, ""}

ProxyTools ==
  {"mcp_list_applications", "mcp_get_application",
   "mcp_get_application_resource_tree"}

StubTools ==
  {"add_cluster", "configure_webhook", "deploy_helm_chart",
   "set_environment", "configure_rbac"}

\* the names registered by the @mcp.tool() decorators
ToolNames == ProxyTools \cup StubTools

\* the argument each tool function needs: only mcp_list_applications has a
\* default for every parameter
HasAllDefaults(tool) == tool = "mcp_list_applications"
CanBind(tool, arg) == HasAllDefaults(tool) \/ arg # None

\* the GET each client method builds
list_applications(search) ==
  [method |-> "GET",
   url |-> <<argocd_client.base_url, "api", "v1", "applications">>,
   headers |-> argocd_client.headers,
   params |-> IF Truthy(search) THEN {<<"search", search>>} ELSE {},
   verify |-> FALSE]

get_application(name) ==
  [method |-> "GET",
   url |-> <<argocd_client.base_url, "api", "v1", "applications", name>>,
   headers |-> argocd_client.headers,
   params |-> {},
   verify |-> FALSE]

get_application_resource_tree(name) ==
  [method |-> "GET",
   url |-> <<argocd_client.base_url, "api", "v1", "applications", name,
             "resource-tree">>,
   headers |-> argocd_client.headers,
   params |-> {},
   verify |-> FALSE]

ClientRequest(tool, arg) ==
  IF tool = "mcp_list_applications" THEN list_applications(arg)
  ELSE IF tool = "mcp_get_application" THEN get_application(arg)
  ELSE get_application_resource_tree(arg)

\* a client that sends the request a second time
RequestsGetRetry(log, req) == Append(Append(log, req), req)

\* requests.get(...): one call, so the request goes out once

RequestsGet(log, req) == Append(log, req)

\* what the control plane can answer: a status and a body that is JSON or
\* not; or no answer at all (the connection fails)
Statuses == {200, 304, 404, 500}
NoAnswer == [answered |-> FALSE, status |-> 0, json |-> FALSE]
Answers ==
  {[answered |-> TRUE, status |-> st, json |-> j] :
     st \in Statuses, j \in BOOLEAN} \cup {NoAnswer}

\* Response.raise_for_status(): raises HTTPError for 4xx and 5xx only
RaiseForStatus(status) == 400 <= status /\ status < 600

NoOutcome == [kind |-> "none", status |-> 0]

\* lines 49-56 / 59-65 / 68-74 after the request went out
ClientResult(ans) ==
  IF ~ans.answered THEN [kind |-> "ConnectionError", status |-> 0]
  ELSE IF RaiseForStatus(ans.status)
    THEN [kind |-> "HTTPError", status |-> ans.status]
  ELSE IF ~ans.json THEN [kind |-> "JSONDecodeError", status |-> 0]
  ELSE [kind |-> "return", status |-> 0]

\* ------------------------------------------------------- POST /jsonrpc
NullId == "null"
Ids == {"abc"}
Methods == ProxyTools \cup {"add_cluster", "no_such_tool"}
Args == {None, "payments"}

MalformedBody == [wellformed |-> FALSE, method |-> "", id |-> NullId, arg |-> None]
Bodies ==
  {[wellformed |-> TRUE, method |-> m, id |-> i, arg |-> a] :
     m \in Methods, i \in Ids, a \in Args} \cup {MalformedBody}

\* Request.json(): json.loads of the body; a malformed body raises
RequestJson(body) ==
  IF body.wellformed THEN [ok |-> TRUE, exc |-> "none"]
  ELSE [ok |-> FALSE, exc |-> "JSONDecodeError"]

Pending == [kind |-> "pending", code |-> 0, id |-> NullId, at |-> "none"]
Fault(at) == [kind |-> "fault", code |-> 0, id |-> NullId, at |-> at]
Envelope(code, id) == [kind |-> "envelope", code |-> code, id |-> id, at |-> "none"]

\* mcp.handle_jsonrpc is library code: what it returns for a body, or
\* whether it raises, is not decided by server.py.  code 0 stands for a
\* `result` envelope, the others for `error` envelopes.
LibCodes == {0, -32601, -32000}
LibOutcomes(body) ==
  {Envelope(c, i) : c \in LibCodes, i \in {body.id, NullId}}
    \cup {Fault("mcp.handle_jsonrpc")}

\* ------------------------------------------------------------ GET /sse
NoDoc == [type |-> "none", keys |-> {}, items |-> ""]
CatalogDoc == [type |-> "array", keys |-> {}, items |-> "tools"]
ErrorKeyDoc == [type |-> "object", keys |-> {"error"}, items |-> "boom"]

MissingFile == [exists |-> FALSE, valid |-> FALSE, doc |-> NoDoc]
MalformedFile == [exists |-> TRUE, valid |-> FALSE, doc |-> NoDoc]
ValidFile(doc) == [exists |-> TRUE, valid |-> TRUE, doc |-> doc]
FileStates == {MissingFile, MalformedFile, ValidFile(CatalogDoc), ValidFile(ErrorKeyDoc)}

Closed == [exists |-> FALSE, valid |-> FALSE, doc |-> [type |-> "closed", keys |-> {}, items |-> ""]]

\* open(TOOLS_FILE_PATH, "r")
Open(file) ==
  IF file.exists THEN [ok |-> TRUE, exc |-> "none"]
  ELSE [ok |-> FALSE, exc |-> "FileNotFoundError"]

\* json.load(f)
JsonLoad(h) ==
  IF h.valid THEN [ok |-> TRUE, exc |-> "none", value |-> h.doc]
  ELSE [ok |-> FALSE, exc |-> "JSONDecodeError", value |-> NoDoc]

\* str(e)
Str(exc) ==
  IF exc = "FileNotFoundError" THEN "[Errno 2] No such file or directory"
  ELSE IF exc = "JSONDecodeError" THEN "Expecting value: line 1 column 1 (char 0)"
  ELSE exc

\* `except json.JSONDecodeError` would let a missing file end the loop
CatchesOnlyJson(exc) == exc = "JSONDecodeError"

\* a bare `except` would swallow the cancellation too
CatchesEverything(exc) == TRUE

\* `except Exception`: CancelledError and GeneratorExit derive from
\* BaseException and pass through

Catches(exc) == exc \in {"FileNotFoundError", "JSONDecodeError"}

\* open() with a close() only after a successful load would leak the handle
WithExitLeaks(h, ok) == IF ok THEN Closed ELSE h

\* leaving the `with` block releases the handle on both paths

WithExit(h, ok) == Closed

Message(params) == [jsonrpc |-> "2.0", method |-> "tools/list", params |-> params]
ErrorParams(msg) == [type |-> "object", keys |-> {"error"}, items |-> msg]

\* f"data: {json.dumps(msg)}\n\n"
Frame(msg) == [prefix |-> "data: ", json |-> msg, suffix |-> "\n\n"]

VARIABLES
  running,        \* the task holding the event loop's thread
  rpcPc,          \* per request: idle, received, parsed, calling, returned, done
  rpcBody,        \* per request: the body it carries
  getLog,         \* per request: the HTTP requests the client sent for it
  upstream,       \* per request: the control plane's answer while in scope
  clientOutcome,  \* per request: how the client method ended while in scope
  httpOut,        \* per request: what the HTTP transport got
  toolsFile,      \* tools.json on disk
  ssePc,          \* per subscriber: position of event_generator
  connected,      \* per subscriber: the connection is open
  handle,         \* per subscriber: the open read handle, or Closed
  stream,         \* per subscriber: the records written to the stream
  tickLog,        \* per subscriber: per finished tick, the source and failure
  cancelledAt,    \* per subscriber: where the loop was when cancelled
  eventsAtCancel  \* per subscriber: records written when cancelled

rpcVars == <<rpcPc, rpcBody, getLog, upstream, clientOutcome, httpOut>>
sseVars == <<toolsFile, ssePc, connected, handle, stream, tickLog,
             cancelledAt, eventsAtCancel>>
vars == <<running, rpcVars, sseVars>>

Init ==
  /\ running = NoTask
  /\ rpcPc = [r \in Reqs |-> "idle"]
  /\ rpcBody = [r \in Reqs |-> MalformedBody]
  /\ getLog = [r \in Reqs |-> <<>>]
  /\ upstream = [r \in Reqs |-> NoAnswer]
  /\ clientOutcome = [r \in Reqs |-> NoOutcome]
  /\ httpOut = [r \in Reqs |-> Pending]
  /\ toolsFile = ValidFile(CatalogDoc)
  /\ ssePc = [s \in Subs |-> "idle"]
  /\ connected = [s \in Subs |-> FALSE]
  /\ handle = [s \in Subs |-> Closed]
  /\ stream = [s \in Subs |-> <<>>]
  /\ tickLog = [s \in Subs |-> <<>>]
  /\ cancelledAt = [s \in Subs |-> "none"]
  /\ eventsAtCancel = [s \in Subs |-> 0]

\* ================================================= POST /jsonrpc actions

\* a POST /jsonrpc arrives with some body
Receive(r, body) ==
  /\ rpcPc[r] = "idle"
  /\ rpcPc' = [rpcPc EXCEPT ![r] = "received"]
  /\ rpcBody' = [rpcBody EXCEPT ![r] = body]
  /\ UNCHANGED <<running, getLog, upstream, clientOutcome, httpOut, sseVars>>

\* line 149: body = await request.json(); nothing catches what it raises
ReadBody(r) ==
  /\ rpcPc[r] = "received"
  /\ running = NoTask
  /\ LET parsed == RequestJson(rpcBody[r]) IN
       IF parsed.ok
         THEN /\ rpcPc' = [rpcPc EXCEPT ![r] = "parsed"]
              /\ UNCHANGED httpOut
         ELSE /\ rpcPc' = [rpcPc EXCEPT ![r] = "done"]
              /\ httpOut' = [httpOut EXCEPT ![r] = Fault("request.json")]
  /\ UNCHANGED <<running, rpcBody, getLog, upstream, clientOutcome, sseVars>>

\* line 150, no tool runs: the method is not registered or its arguments
\* do not bind; the library answers (or raises) on its own
LibraryAnswer(r) ==
  /\ rpcPc[r] = "parsed"
  /\ running = NoTask
  /\ \/ rpcBody[r].method \notin ToolNames
     \/ ~CanBind(rpcBody[r].method, rpcBody[r].arg)
  /\ \E out \in LibOutcomes(rpcBody[r]) :
       httpOut' = [httpOut EXCEPT ![r] = out]
  /\ rpcPc' = [rpcPc EXCEPT ![r] = "done"]
  /\ UNCHANGED <<running, rpcBody, getLog, upstream, clientOutcome, sseVars>>

\* line 150, a stub tool (lines 102-142) runs: it returns at once
InvokeStub(r) ==
  /\ rpcPc[r] = "parsed"
  /\ running = NoTask
  /\ rpcBody[r].method \in StubTools
  /\ CanBind(rpcBody[r].method, rpcBody[r].arg)
  /\ \E out \in LibOutcomes(rpcBody[r]) :
       httpOut' = [httpOut EXCEPT ![r] = out]
  /\ rpcPc' = [rpcPc EXCEPT ![r] = "done"]
  /\ UNCHANGED <<running, rpcBody, getLog, upstream, clientOutcome, sseVars>>

\* line 150, a proxy tool (lines 84-97) runs: a plain `def` called from the
\* coroutine, so requests.get blocks the event loop's thread until the
\* control plane answers
InvokeProxy(r) ==
  /\ rpcPc[r] = "parsed"
  /\ running = NoTask
  /\ rpcBody[r].method \in ProxyTools
  /\ CanBind(rpcBody[r].method, rpcBody[r].arg)
  /\ getLog' = [getLog EXCEPT ![r] =
       RequestsGet(@, ClientRequest(rpcBody[r].method, rpcBody[r].arg))]
  /\ rpcPc' = [rpcPc EXCEPT ![r] = "calling"]
  /\ running' = RpcTask(r)
  /\ UNCHANGED <<rpcBody, upstream, clientOutcome, httpOut, sseVars>>

\* the control plane answers (or the connection fails); the client method
\* runs raise_for_status() and resp.json()
HttpAnswer(r, ans) ==
  /\ rpcPc[r] = "calling"
  /\ upstream' = [upstream EXCEPT ![r] = ans]
  /\ clientOutcome' = [clientOutcome EXCEPT ![r] = ClientResult(ans)]
  /\ rpcPc' = [rpcPc EXCEPT ![r] = "returned"]
  /\ UNCHANGED <<running, rpcBody, getLog, httpOut, sseVars>>

\* the tool's value or exception goes back to the library, whose answer
\* line 152 wraps in a JSONResponse
Package(r) ==
  /\ rpcPc[r] = "returned"
  /\ \E out \in LibOutcomes(rpcBody[r]) :
       httpOut' = [httpOut EXCEPT ![r] = out]
  /\ rpcPc' = [rpcPc EXCEPT ![r] = "done"]
  /\ upstream' = [upstream EXCEPT ![r] = NoAnswer]
  /\ clientOutcome' = [clientOutcome EXCEPT ![r] = NoOutcome]
  /\ running' = NoTask
  /\ UNCHANGED <<rpcBody, getLog, sseVars>>

\* ====================================================== GET /sse actions

Emit(s, params) == [stream EXCEPT ![s] = Append(@, Frame(Message(params)))]
Log(s, source, failure) ==
  [tickLog EXCEPT ![s] = Append(@, [source |-> source, failure |-> failure])]

\* a subscriber connects: StreamingResponse(event_generator())
SseConnect(s) ==
  /\ ssePc[s] = "idle"
  /\ running = NoTask
  /\ ssePc' = [ssePc EXCEPT ![s] = "tick"]
  /\ connected' = [connected EXCEPT ![s] = TRUE]
  /\ UNCHANGED <<running, rpcVars, toolsFile, handle, stream, tickLog,
                 cancelledAt, eventsAtCancel>>

\* line 162: the loop starts a tick (at first, or when the timer of line
\* 179 fires) and opens tools.json
SseOpen(s) ==
  /\ ssePc[s] \in {"tick", "sleep"}
  /\ running = NoTask
  /\ Len(stream[s]) < MaxEvents
  /\ LET o == Open(toolsFile) IN
       IF o.ok
         THEN /\ handle' = [handle EXCEPT ![s] = toolsFile]
              /\ ssePc' = [ssePc EXCEPT ![s] = "opened"]
              /\ running' = SseTask(s)
              /\ UNCHANGED <<stream, tickLog>>
         ELSE /\ tickLog' = Log(s, toolsFile, "open")
              /\ IF Catches(o.exc)
                   THEN /\ stream' = Emit(s, ErrorParams(Str(o.exc)))
                        /\ ssePc' = [ssePc EXCEPT ![s] = "yield_err"]
                   ELSE /\ ssePc' = [ssePc EXCEPT ![s] = "terminated"]
                        /\ UNCHANGED stream
              /\ UNCHANGED <<running, handle>>
  /\ UNCHANGED <<rpcVars, toolsFile, connected, cancelledAt, eventsAtCancel>>

\* lines 163-177: json.load, the end of the `with` block, and the yield of
\* the catalog event (line 170) or of the error event (line 177)
SseLoad(s) ==
  /\ ssePc[s] = "opened"
  /\ running = SseTask(s)
  /\ LET l == JsonLoad(handle[s]) IN
       /\ handle' = [handle EXCEPT ![s] = WithExit(@, l.ok)]
       /\ tickLog' = Log(s, handle[s], IF l.ok THEN "none" ELSE "parse")
       /\ IF l.ok
            THEN /\ stream' = Emit(s, l.value)
                 /\ ssePc' = [ssePc EXCEPT ![s] = "yield_ok"]
            ELSE IF Catches(l.exc)
              THEN /\ stream' = Emit(s, ErrorParams(Str(l.exc)))
                   /\ ssePc' = [ssePc EXCEPT ![s] = "yield_err"]
              ELSE /\ ssePc' = [ssePc EXCEPT ![s] = "terminated"]
                   /\ UNCHANGED stream
  /\ running' = NoTask
  /\ UNCHANGED <<rpcVars, toolsFile, connected, cancelledAt, eventsAtCancel>>

\* the consumer asks for the next record: the generator leaves the yield
\* and suspends in `await asyncio.sleep(1)` (line 179)
SseResume(s) ==
  /\ ssePc[s] \in {"yield_ok", "yield_err"}
  /\ running = NoTask
  /\ ssePc' = [ssePc EXCEPT ![s] = "sleep"]
  /\ UNCHANGED <<running, rpcVars, toolsFile, connected, handle, stream,
                 tickLog, cancelledAt, eventsAtCancel>>

\* the subscriber closes the connection
SseClose(s) ==
  /\ connected[s]
  /\ connected' = [connected EXCEPT ![s] = FALSE]
  /\ UNCHANGED <<running, rpcVars, toolsFile, ssePc, handle, stream, tickLog,
                 cancelledAt, eventsAtCancel>>

\* what is thrown into the suspended generator
Thrown(pc) == IF pc = "sleep" THEN "CancelledError" ELSE "GeneratorExit"

\* the closed connection cancels the loop where it is suspended; only the
\* yield of line 170 lies inside the try block
SseCancel(s) ==
  /\ ~connected[s]
  /\ ssePc[s] \in {"yield_ok", "yield_err", "sleep"}
  /\ running = NoTask
  /\ cancelledAt' = [cancelledAt EXCEPT ![s] = ssePc[s]]
  /\ eventsAtCancel' = [eventsAtCancel EXCEPT ![s] = Len(stream[s])]
  /\ IF ssePc[s] = "yield_ok" /\ Catches(Thrown(ssePc[s]))
       THEN /\ stream' = Emit(s, ErrorParams(Str(Thrown(ssePc[s]))))
            /\ ssePc' = [ssePc EXCEPT ![s] = "yield_err"]
       ELSE /\ ssePc' = [ssePc EXCEPT ![s] = "cancelled"]
            /\ UNCHANGED stream
  /\ UNCHANGED <<running, rpcVars, toolsFile, connected, handle, tickLog>>

\* tools.json is deleted, rewritten or restored by someone else
FileChange(file) ==
  /\ file # toolsFile
  /\ toolsFile' = file
  /\ UNCHANGED <<running, rpcVars, ssePc, connected, handle, stream, tickLog,
                 cancelledAt, eventsAtCancel>>

\* ========================================================= specifications

NextRpc ==
  \E r \in Reqs :
    \/ \E body \in Bodies : Receive(r, body)
    \/ ReadBody(r)
    \/ LibraryAnswer(r)
    \/ InvokeStub(r)
    \/ InvokeProxy(r)
    \/ \E ans \in Answers : HttpAnswer(r, ans)
    \/ Package(r)

NextSse ==
  \/ \E s \in Subs :
       \/ SseConnect(s)
       \/ SseOpen(s)
       \/ SseLoad(s)
       \/ SseResume(s)
       \/ SseClose(s)
       \/ SseCancel(s)
  \/ \E file \in FileStates : FileChange(file)

Next == NextRpc \/ NextSse

Spec == Init /\ [][Next]_vars
SpecRpc == Init /\ [][NextRpc]_vars
SpecSse == Init /\ [][NextSse]_vars

\* ================================================================ claims

\* ---- C1: no failure of the dispatch path reaches the HTTP transport as a
\* raw fault; every request ends with a response envelope.  Stated for the
\* step server.py decides itself: reading the body (line 149).
C1_NoFaultFromBodyRead ==
  \A r \in Reqs : ~(httpOut[r].kind = "fault" /\ httpOut[r].at = "request.json")

\* ---- C2: a request with a malformed JSON body is answered with a
\* ParseError envelope (code -32700) whose id is null.
C2_MalformedGetsParseError ==
  \A r \in Reqs :
    (rpcPc[r] = "done" /\ ~rpcBody[r].wellformed) =>
      httpOut[r] = Envelope(-32700, NullId)

\* ---- C3: when the control plane answers a proxy tool's call with a status
\* outside 200..299, the client call fails with an error carrying that
\* status instead of returning a value.
C3_Non2xxFailsWithStatus ==
  \A r \in Reqs :
    (rpcPc[r] = "returned" /\ upstream[r].answered
       /\ upstream[r].status \notin 200..299) =>
      (clientOutcome[r].kind = "HTTPError"
         /\ clientOutcome[r].status = upstream[r].status)

\* ---- C6: while a request waits for the outbound HTTP call, the event loop
\* is free: another request that has arrived, or a streaming loop whose
\* tick is due, can take its next step.
C6_LoopFreeDuringOutboundCall ==
  \A r \in Reqs :
    rpcPc[r] = "calling" =>
      /\ \A q \in Reqs \ {r} : rpcPc[q] = "received" => ENABLED ReadBody(q)
      /\ \A s \in Subs :
           (ssePc[s] \in {"tick", "sleep"} /\ Len(stream[s]) < MaxEvents)
             => ENABLED SseOpen(s)

CompleteRecord(e) ==
  /\ e.prefix = "data: "
  /\ e.suffix = "\n\n"
  /\ e.json.jsonrpc = "2.0"
  /\ e.json.method = "tools/list"
  /\ e.json.params.type \in {"array", "object"}

Readable(file) == file.exists /\ file.valid

\* ---- C5: a failure to read or parse tools.json at a tick never ends the
\* loop: every finished tick has written exactly one record, the record of
\* a failed tick has params {error: <non-empty message>}, and the record of
\* a tick that found the source readable carries the parsed catalog,
\* whatever happened at the ticks before it.
C5_ReadFailureNotFatal ==
  \A s \in Subs :
    /\ ssePc[s] # "terminated"
    /\ Len(stream[s]) = Len(tickLog[s])
    /\ \A i \in 1..Len(tickLog[s]) :
         /\ tickLog[s][i].failure # "none" =>
              /\ stream[s][i].json.params.keys = {"error"}
              /\ stream[s][i].json.params.items # ""
              /\ stream[s][i] =
                   Frame(Message(ErrorParams(stream[s][i].json.params.items)))
         /\ Readable(tickLog[s][i].source) =>
              /\ tickLog[s][i].failure = "none"
              /\ stream[s][i].json.params = tickLog[s][i].source.doc

\* a failed tick is followed by a tick that emits the catalog
C5_Witness ==
  \E s \in Subs : \E i \in 1..MaxEvents :
    /\ i + 1 <= Len(tickLog[s])
    /\ Len(stream[s]) = Len(tickLog[s])
    /\ tickLog[s][i].failure # "none"
    /\ "error" \in stream[s][i].json.params.keys
    /\ tickLog[s][i + 1].failure = "none"
    /\ stream[s][i + 1].json.params = CatalogDoc

\* ---- C7 as stated: the loop is cancelled at the timer wait, its one
\* suspend point.
C7_CancelledAtTimerWait ==
  \A s \in Subs : cancelledAt[s] \in {"none", "sleep"}

\* ---- C7 amended: the loop ends only by cancellation after its
\* subscriber's connection closed; the cancellation lands where the loop is
\* suspended, which is the yield of a record or the timer wait; every
\* record written is complete and none is written after the cancellation.
C7_CancelledAtSuspendPoint ==
  \A s \in Subs :
    /\ ssePc[s] \in {"cancelled", "terminated"} =>
         /\ ~connected[s]
         /\ ssePc[s] = "cancelled"
         /\ cancelledAt[s] \in {"yield_ok", "yield_err", "sleep"}
    /\ cancelledAt[s] # "none" =>
         /\ ssePc[s] = "cancelled"
         /\ Len(stream[s]) = eventsAtCancel[s]
    /\ \A i \in 1..Len(stream[s]) : CompleteRecord(stream[s][i])

\* the loop was cancelled while suspended at the yield of a record
C7_Witness ==
  \E s \in Subs :
    /\ ssePc[s] = "cancelled"
    /\ cancelledAt[s] \in {"yield_ok", "yield_err"}
    /\ Len(stream[s]) >= 1

\* ---- C8: every record is well formed, and its params has an `error`
\* member exactly when the read or parse failed at that tick, whatever
\* tools.json contains.
C8_ErrorFieldIffFailure ==
  \A s \in Subs :
    \A i \in 1..Len(stream[s]) :
      /\ CompleteRecord(stream[s][i])
      /\ i <= Len(tickLog[s]) =>
           (("error" \in stream[s][i].json.params.keys)
              <=> tickLog[s][i].failure # "none")

\* ---- C10: the read handle lives inside one tick: it is open only between
\* open() and the end of the `with` block, a stretch the loop runs without
\* suspending; at a yield, at the timer wait and after cancellation no
\* handle is open.
C10_HandleScopedPerTick ==
  \A s \in Subs :
    /\ ssePc[s] \in {"yield_ok", "yield_err", "sleep", "cancelled",
                     "terminated", "idle", "tick"} => handle[s] = Closed
    /\ handle[s] # Closed => (ssePc[s] = "opened" /\ running = SseTask(s))

\* the loop is suspended after a tick whose parse failed, having also
\* finished a tick that succeeded: the handle was opened on both paths
C10_Witness ==
  \E s \in Subs :
    /\ ssePc[s] = "yield_err"
    /\ handle[s] = Closed
    /\ tickLog[s][Len(tickLog[s])].failure = "parse"
    /\ \E i \in 1..Len(tickLog[s]) : tickLog[s][i].failure = "none"

====
